---- MODULE Spec2Model ----
(***************************************************************************)
(* SafeTrack real-time communication server (src/server.js).               *)
(*                                                                         *)
(* The four in-memory Maps, the per-connection socket objects and the      *)
(* request / socket-event handlers are modelled one action per handler.    *)
(* Node runs every handler to completion on a single thread, so a handler  *)
(* is one atomic step.  The variable `last` records what the last handler  *)
(* answered and which events it emitted, in emission order.                *)
(***************************************************************************)
EXTENDS Integers, Sequences, FiniteSets, TLC

\* ---------------------------------------------------------------- bounds
NumUsers == 2
\* connections accepted in a behaviour of each specification
PresenceSockets == 3
TrackingSockets == 2
IdentitySockets == 1
\* user ids of the registration specification
RegisterUsers == 1

\* ---------------------------------------------------------------- inputs
\* A request field that is absent or falsy (undefined, "", 0).
Missing == 0
NoName == ""
Null == "null"

UserIds == 1..NumUsers
Names == {"Ann", "Bob"}
Durations == {-5, 0, 300}
Locations == {Null, "here"}
\* readings of the wall clock (new Date())
Times == {1, 2}
SocketIds == 1..PresenceSockets

VARIABLES
    users,              \* Map userId -> user data
    userSockets,        \* Map userId -> socket.id
    emergencyContacts,  \* Map userId -> array of contact userIds
    activeTracking,     \* Map userId -> tracking data
    sockets,            \* open socket.id -> socket.userId (Missing = undefined)
    nextSocketId,       \* number of connections accepted so far
    last                \* the last handler run: its reply and its emits

vars == <<users, userSockets, emergencyContacts, activeTracking, sockets,
          nextSocketId, last>>

stores == <<users, userSockets, emergencyContacts, activeTracking>>

\* ---------------------------------------------------------------- Map
EmptyMap == [k \in {} |-> Null]

Has(m, k) == k \in DOMAIN m

MapSet(m, k, v) == [x \in (DOMAIN m) \cup {k} |-> IF x = k THEN v ELSE m[x]]

MapDelete(m, k) == [x \in (DOMAIN m) \ {k} |-> m[x]]

\* emergencyContacts.get(userId) || []
ContactsOrEmpty(contacts, userId) ==
    IF Has(contacts, userId) THEN contacts[userId] ELSE << >>

\* Array.prototype.includes
Includes(arr, x) == \E i \in 1..Len(arr) : arr[i] = x

\* ---------------------------------------------------------------- emits
Emit(to, event, data) == [to |-> to, event |-> event, data |-> data]

From(user) == [name |-> user.name, userId |-> user.userId]

\* A fan-out that stops at the first contact it delivers to.
ForEachEmitFirstOnly(userContacts, socks, event, data) ==
    LET online == {i \in 1..Len(userContacts) : Has(socks, userContacts[i])}
    IN  IF online = {} THEN << >>
        ELSE LET first == CHOOSE i \in online : \A j \in online : i <= j
             IN  <<Emit(socks[userContacts[first]], event, data)>>

\* userContacts.forEach(contactId => { const contactSocketId =
\*   userSockets.get(contactId); if (contactSocketId) io.to(..).emit(..) })
RECURSIVE ForEachEmit(_, _, _, _)
ForEachEmit(userContacts, socks, event, data) ==
    IF userContacts = << >> THEN << >>
    ELSE LET contactId == Head(userContacts)
             rest == ForEachEmit(Tail(userContacts), socks, event, data)
         IN  IF Has(socks, contactId)
             THEN <<Emit(socks[contactId], event, data)>> \o rest
             ELSE rest

OnlineContacts(userContacts, socks) ==
    {i \in 1..Len(userContacts) : Has(socks, userContacts[i])}

\* What a handler was asked and what it answered: op and userId name the
\* request, arg is its second field (name, contactUserId or duration), socket
\* the connection of a socket event; status and result are the HTTP reply (or
\* whether the socket handler took its success branch); events are the emits.
Reply(op, userId, arg, socket, status, result, events) ==
    [op |-> op, userId |-> userId, arg |-> arg, socket |-> socket,
     status |-> status, result |-> result, events |-> events]

\* ---------------------------------------------------------------- Init
Init ==
    /\ users = EmptyMap
    /\ userSockets = EmptyMap
    /\ emergencyContacts = EmptyMap
    /\ activeTracking = EmptyMap
    /\ sockets = EmptyMap
    /\ nextSocketId = 0
    /\ last = Reply("listen", Missing, Null, Missing, 0, Null, << >>)

\* ---------------------------------------------------------------- HTTP
\* Register without the users.has(userId) check of line 80.
RegisterOverwrites(name, userId, now) ==
    IF name = NoName \/ userId = Missing
    THEN /\ last' = Reply("register", userId, name, Missing, 400, Null, << >>)
         /\ UNCHANGED <<stores, sockets, nextSocketId>>
    ELSE LET user == [name |-> name, userId |-> userId,
                      createdAt |-> now, lastActive |-> now]
         IN  /\ users' = MapSet(users, userId, user)
             /\ emergencyContacts' = MapSet(emergencyContacts, userId, << >>)
             /\ last' = Reply("register", userId, name, Missing, 200, user, << >>)
             /\ UNCHANGED <<userSockets, activeTracking, sockets, nextSocketId>>

\* Register without the emergencyContacts.set of line 95.
RegisterWithoutContactList(name, userId, now) ==
    IF name = NoName \/ userId = Missing
    THEN /\ last' = Reply("register", userId, name, Missing, 400, Null, << >>)
         /\ UNCHANGED <<stores, sockets, nextSocketId>>
    ELSE IF Has(users, userId)
    THEN /\ last' = Reply("register", userId, name, Missing, 409, Null, << >>)
         /\ UNCHANGED <<stores, sockets, nextSocketId>>
    ELSE LET user == [name |-> name, userId |-> userId,
                      createdAt |-> now, lastActive |-> now]
         IN  /\ users' = MapSet(users, userId, user)
             /\ last' = Reply("register", userId, name, Missing, 200, user, << >>)
             /\ UNCHANGED <<userSockets, emergencyContacts, activeTracking,
                            sockets, nextSocketId>>

\* POST /api/user/register
Register(name, userId, now) ==
    IF name = NoName \/ userId = Missing
    THEN /\ last' = Reply("register", userId, name, Missing, 400, Null, << >>)
         /\ UNCHANGED <<stores, sockets, nextSocketId>>
    ELSE IF Has(users, userId)
    THEN /\ last' = Reply("register", userId, name, Missing, 409, Null, << >>)
         /\ UNCHANGED <<stores, sockets, nextSocketId>>
    ELSE LET user == [name |-> name, userId |-> userId,
                      createdAt |-> now, lastActive |-> now]
         IN  /\ users' = MapSet(users, userId, user)
             /\ emergencyContacts' = MapSet(emergencyContacts, userId, << >>)
             /\ last' = Reply("register", userId, name, Missing, 200, user, << >>)
             /\ UNCHANGED <<userSockets, activeTracking, sockets, nextSocketId>>

\* AddContact without the userContacts.includes check of line 168.
AddContactNoDuplicateCheck(userId, contactUserId) ==
    IF userId = Missing \/ contactUserId = Missing
    THEN /\ last' = Reply("addContact", userId, contactUserId, Missing, 400,
                          "userId and contactUserId are required", << >>)
         /\ UNCHANGED <<stores, sockets, nextSocketId>>
    ELSE IF ~Has(users, userId) \/ ~Has(users, contactUserId)
    THEN /\ last' = Reply("addContact", userId, contactUserId, Missing, 404,
                          "One or both users not found", << >>)
         /\ UNCHANGED <<stores, sockets, nextSocketId>>
    ELSE LET userContacts == ContactsOrEmpty(emergencyContacts, userId)
             contactUser == users[contactUserId]
         IN  /\ Len(userContacts) < NumUsers + 1   \* keeps the lists finite
             /\ emergencyContacts' =
                   MapSet(emergencyContacts, userId,
                          Append(userContacts, contactUserId))
             /\ last' = Reply("addContact", userId, contactUserId, Missing, 200,
                              [name |-> contactUser.name,
                               userId |-> contactUser.userId,
                               isOnline |-> Has(userSockets, contactUserId)],
                              << >>)
             /\ UNCHANGED <<users, userSockets, activeTracking, sockets,
                            nextSocketId>>

\* AddContact that checks only the owner on line 158; reading the name of
\* the unknown contact then throws after the push, and the reply is 500.
AddContactOwnerCheckOnly(userId, contactUserId) ==
    IF userId = Missing \/ contactUserId = Missing
    THEN /\ last' = Reply("addContact", userId, contactUserId, Missing, 400,
                          "userId and contactUserId are required", << >>)
         /\ UNCHANGED <<stores, sockets, nextSocketId>>
    ELSE IF ~Has(users, userId)
    THEN /\ last' = Reply("addContact", userId, contactUserId, Missing, 404,
                          "One or both users not found", << >>)
         /\ UNCHANGED <<stores, sockets, nextSocketId>>
    ELSE LET userContacts == ContactsOrEmpty(emergencyContacts, userId)
         IN  IF Includes(userContacts, contactUserId)
             THEN /\ last' = Reply("addContact", userId, contactUserId, Missing, 409,
                                   "Contact already exists", << >>)
                  /\ UNCHANGED <<stores, sockets, nextSocketId>>
             ELSE /\ emergencyContacts' =
                        MapSet(emergencyContacts, userId,
                               Append(userContacts, contactUserId))
                  /\ last' = IF Has(users, contactUserId)
                             THEN Reply("addContact", userId, contactUserId, Missing,
                                        200,
                                        [name |-> users[contactUserId].name,
                                         userId |-> users[contactUserId].userId,
                                         isOnline |-> Has(userSockets, contactUserId)],
                                        << >>)
                             ELSE Reply("addContact", userId, contactUserId, Missing,
                                        500, "Failed to add contact", << >>)
                  /\ UNCHANGED <<users, userSockets, activeTracking, sockets,
                                 nextSocketId>>

\* AddContact with userContacts.unshift in place of the push of line 176.
AddContactPrepends(userId, contactUserId) ==
    IF userId = Missing \/ contactUserId = Missing
    THEN /\ last' = Reply("addContact", userId, contactUserId, Missing, 400,
                          "userId and contactUserId are required", << >>)
         /\ UNCHANGED <<stores, sockets, nextSocketId>>
    ELSE IF ~Has(users, userId) \/ ~Has(users, contactUserId)
    THEN /\ last' = Reply("addContact", userId, contactUserId, Missing, 404,
                          "One or both users not found", << >>)
         /\ UNCHANGED <<stores, sockets, nextSocketId>>
    ELSE LET userContacts == ContactsOrEmpty(emergencyContacts, userId)
             contactUser == users[contactUserId]
         IN  IF Includes(userContacts, contactUserId)
             THEN /\ last' = Reply("addContact", userId, contactUserId, Missing, 409,
                                   "Contact already exists", << >>)
                  /\ UNCHANGED <<stores, sockets, nextSocketId>>
             ELSE /\ emergencyContacts' =
                        MapSet(emergencyContacts, userId,
                               <<contactUserId>> \o userContacts)
                  /\ last' = Reply("addContact", userId, contactUserId, Missing, 200,
                                   [name |-> contactUser.name,
                                    userId |-> contactUser.userId,
                                    isOnline |-> Has(userSockets, contactUserId)],
                                   << >>)
                  /\ UNCHANGED <<users, userSockets, activeTracking, sockets,
                                 nextSocketId>>

\* POST /api/contacts/add
AddContact(userId, contactUserId) ==
    IF userId = Missing \/ contactUserId = Missing
    THEN /\ last' = Reply("addContact", userId, contactUserId, Missing, 400,
                          "userId and contactUserId are required", << >>)
         /\ UNCHANGED <<stores, sockets, nextSocketId>>
    ELSE IF ~Has(users, userId) \/ ~Has(users, contactUserId)
    THEN /\ last' = Reply("addContact", userId, contactUserId, Missing, 404,
                          "One or both users not found", << >>)
         /\ UNCHANGED <<stores, sockets, nextSocketId>>
    ELSE LET userContacts == ContactsOrEmpty(emergencyContacts, userId)
             contactUser == users[contactUserId]
         IN  IF Includes(userContacts, contactUserId)
             THEN /\ last' = Reply("addContact", userId, contactUserId, Missing, 409,
                                   "Contact already exists", << >>)
                  /\ UNCHANGED <<stores, sockets, nextSocketId>>
             ELSE /\ emergencyContacts' =
                        MapSet(emergencyContacts, userId,
                               Append(userContacts, contactUserId))
                  /\ last' = Reply("addContact", userId, contactUserId, Missing, 200,
                                   [name |-> contactUser.name,
                                    userId |-> contactUser.userId,
                                    isOnline |-> Has(userSockets, contactUserId)],
                                   << >>)
                  /\ UNCHANGED <<users, userSockets, activeTracking, sockets,
                                 nextSocketId>>

\* GET /api/contacts/:userId
ListContacts(userId) ==
    LET userContacts == ContactsOrEmpty(emergencyContacts, userId)
    IN  /\ IF \A i \in 1..Len(userContacts) : Has(users, userContacts[i])
           THEN last' = Reply("listContacts", userId, Null, Missing, 200,
                              [i \in 1..Len(userContacts) |->
                                  [name |-> users[userContacts[i]].name,
                                   userId |-> users[userContacts[i]].userId,
                                   isOnline |-> Has(userSockets, userContacts[i])]],
                              << >>)
           ELSE last' = Reply("listContacts", userId, Null, Missing, 500,
                              "Failed to get contacts", << >>)
        /\ UNCHANGED <<stores, sockets, nextSocketId>>

\* POST /api/tracking/start
StartTracking(userId, duration, location, now) ==
    IF userId = Missing \/ duration = 0
    THEN /\ last' = Reply("startTracking", userId, duration, Missing, 400,
                          "userId and duration are required", << >>)
         /\ UNCHANGED <<stores, sockets, nextSocketId>>
    ELSE LET trackingData == [userId |-> userId, duration |-> duration,
                              startTime |-> now, location |-> location,
                              isActive |-> TRUE]
             userContacts == ContactsOrEmpty(emergencyContacts, userId)
         IN  /\ activeTracking' = MapSet(activeTracking, userId, trackingData)
             /\ IF ~Has(users, userId) /\ OnlineContacts(userContacts, userSockets) # {}
                THEN \* user is undefined: user.name throws inside forEach
                     last' = Reply("startTracking", userId, duration, Missing, 500,
                                   "Failed to start tracking", << >>)
                ELSE last' = Reply("startTracking", userId, duration, Missing, 200, trackingData,
                                   IF Has(users, userId)
                                   THEN ForEachEmit(userContacts, userSockets,
                                            "contact_tracking_started",
                                            [from |-> From(users[userId]),
                                             duration |-> duration])
                                   ELSE << >>)
             /\ UNCHANGED <<users, userSockets, emergencyContacts, sockets,
                            nextSocketId>>

\* StopTracking without the if (trackingData) test of line 300.
StopTrackingAlwaysNotifies(userId) ==
    IF userId = Missing
    THEN /\ last' = Reply("stopTracking", userId, Null, Missing, 400,
                          "userId is required", << >>)
         /\ UNCHANGED <<stores, sockets, nextSocketId>>
    ELSE LET userContacts == ContactsOrEmpty(emergencyContacts, userId)
         IN  /\ activeTracking' = MapDelete(activeTracking, userId)
             /\ last' = Reply("stopTracking", userId, Null, Missing, 200, Null,
                              IF Has(users, userId)
                              THEN ForEachEmit(userContacts, userSockets,
                                       "contact_tracking_stopped",
                                       [from |-> From(users[userId])])
                              ELSE << >>)
             /\ UNCHANGED <<users, userSockets, emergencyContacts, sockets,
                            nextSocketId>>

\* POST /api/tracking/stop
StopTracking(userId) ==
    IF userId = Missing
    THEN /\ last' = Reply("stopTracking", userId, Null, Missing, 400,
                          "userId is required", << >>)
         /\ UNCHANGED <<stores, sockets, nextSocketId>>
    ELSE IF ~Has(activeTracking, userId)
    THEN /\ last' = Reply("stopTracking", userId, Null, Missing, 200, Null, << >>)
         /\ UNCHANGED <<stores, sockets, nextSocketId>>
    ELSE LET userContacts == ContactsOrEmpty(emergencyContacts, userId)
         IN  /\ activeTracking' = MapDelete(activeTracking, userId)
             /\ IF ~Has(users, userId) /\ OnlineContacts(userContacts, userSockets) # {}
                THEN last' = Reply("stopTracking", userId, Null, Missing, 500,
                                   "Failed to stop tracking", << >>)
                ELSE last' = Reply("stopTracking", userId, Null, Missing, 200, Null,
                                   IF Has(users, userId)
                                   THEN ForEachEmit(userContacts, userSockets,
                                            "contact_tracking_stopped",
                                            [from |-> From(users[userId])])
                                   ELSE << >>)
             /\ UNCHANGED <<users, userSockets, emergencyContacts, sockets,
                            nextSocketId>>

\* EmergencyAlert without the activeTracking.delete of line 389.
EmergencyAlertKeepsTracking(userId, location) ==
    LET userContacts == ContactsOrEmpty(emergencyContacts, userId)
    IN  IF userId = Missing
        THEN /\ last' = Reply("emergencyAlert", userId, Null, Missing, 400,
                              "userId is required", << >>)
             /\ UNCHANGED <<stores, sockets, nextSocketId>>
        ELSE IF ~Has(users, userId)
        THEN /\ last' = Reply("emergencyAlert", userId, Null, Missing, 404,
                              "User not found", << >>)
             /\ UNCHANGED <<stores, sockets, nextSocketId>>
        ELSE IF Len(userContacts) = 0
        THEN /\ last' = Reply("emergencyAlert", userId, Null, Missing, 400,
                              "No emergency contacts configured", << >>)
             /\ UNCHANGED <<stores, sockets, nextSocketId>>
        ELSE LET emergencyAlert == [from |-> From(users[userId]),
                                    location |-> location]
                 sent == ForEachEmit(userContacts, userSockets,
                                     "emergency_alert", emergencyAlert)
                 notifiedCount == Len(sent)
             IN  /\ last' = Reply("emergencyAlert", userId, Null, Missing, 200,
                                  [totalContacts |-> Len(userContacts),
                                   notifiedContacts |-> notifiedCount,
                                   onlineContacts |-> notifiedCount],
                                  sent)
                 /\ UNCHANGED <<stores, sockets, nextSocketId>>

\* EmergencyAlert with the activeTracking.delete of line 389 moved ahead of
\* the empty-contact-list test of line 358.
EmergencyAlertStopsFirst(userId, location) ==
    LET userContacts == ContactsOrEmpty(emergencyContacts, userId)
    IN  IF userId = Missing
        THEN /\ last' = Reply("emergencyAlert", userId, Null, Missing, 400,
                              "userId is required", << >>)
             /\ UNCHANGED <<stores, sockets, nextSocketId>>
        ELSE IF ~Has(users, userId)
        THEN /\ last' = Reply("emergencyAlert", userId, Null, Missing, 404,
                              "User not found", << >>)
             /\ UNCHANGED <<stores, sockets, nextSocketId>>
        ELSE IF Len(userContacts) = 0
        THEN /\ activeTracking' = MapDelete(activeTracking, userId)
             /\ last' = Reply("emergencyAlert", userId, Null, Missing, 400,
                              "No emergency contacts configured", << >>)
             /\ UNCHANGED <<users, userSockets, emergencyContacts, sockets,
                            nextSocketId>>
        ELSE LET emergencyAlert == [from |-> From(users[userId]),
                                    location |-> location]
                 sent == ForEachEmit(userContacts, userSockets,
                                     "emergency_alert", emergencyAlert)
                 notifiedCount == Len(sent)
             IN  /\ activeTracking' = MapDelete(activeTracking, userId)
                 /\ last' = Reply("emergencyAlert", userId, Null, Missing, 200,
                                  [totalContacts |-> Len(userContacts),
                                   notifiedContacts |-> notifiedCount,
                                   onlineContacts |-> notifiedCount],
                                  sent)
                 /\ UNCHANGED <<users, userSockets, emergencyContacts, sockets,
                                nextSocketId>>

\* POST /api/emergency/alert
EmergencyAlert(userId, location) ==
    LET userContacts == ContactsOrEmpty(emergencyContacts, userId)
    IN  IF userId = Missing
        THEN /\ last' = Reply("emergencyAlert", userId, Null, Missing, 400,
                              "userId is required", << >>)
             /\ UNCHANGED <<stores, sockets, nextSocketId>>
        ELSE IF ~Has(users, userId)
        THEN /\ last' = Reply("emergencyAlert", userId, Null, Missing, 404,
                              "User not found", << >>)
             /\ UNCHANGED <<stores, sockets, nextSocketId>>
        ELSE IF Len(userContacts) = 0
        THEN /\ last' = Reply("emergencyAlert", userId, Null, Missing, 400,
                              "No emergency contacts configured", << >>)
             /\ UNCHANGED <<stores, sockets, nextSocketId>>
        ELSE LET emergencyAlert == [from |-> From(users[userId]),
                                    location |-> location]
                 sent == ForEachEmit(userContacts, userSockets,
                                     "emergency_alert", emergencyAlert)
                 notifiedCount == Len(sent)
             IN  /\ activeTracking' = MapDelete(activeTracking, userId)
                 /\ last' = Reply("emergencyAlert", userId, Null, Missing, 200,
                                  [totalContacts |-> Len(userContacts),
                                   notifiedContacts |-> notifiedCount,
                                   onlineContacts |-> notifiedCount],
                                  sent)
                 /\ UNCHANGED <<users, userSockets, emergencyContacts, sockets,
                                nextSocketId>>

\* ---------------------------------------------------------------- WebSocket
\* io.on('connection'): a socket with a fresh id and no userId
Connection(maxSockets) ==
    /\ nextSocketId < maxSockets
    /\ nextSocketId' = nextSocketId + 1
    /\ sockets' = MapSet(sockets, nextSocketId + 1, Missing)
    /\ last' = Reply("connection", Missing, Null, nextSocketId + 1, 0, Null, << >>)
    /\ UNCHANGED stores

\* Authenticate that tests only if (userId) on line 420; for an unknown
\* user the binding is made and user.lastActive then throws.
AuthenticateWithoutUserCheck(socket, userId, now) ==
    /\ Has(sockets, socket)
    /\ IF userId # Missing /\ Has(users, userId)
       THEN LET socks == MapSet(userSockets, userId, socket)
                user == [users[userId] EXCEPT !.lastActive = now]
                userContacts == ContactsOrEmpty(emergencyContacts, userId)
            IN  /\ userSockets' = socks
                /\ sockets' = MapSet(sockets, socket, userId)
                /\ users' = MapSet(users, userId, user)
                /\ last' = Reply("authenticate", userId, Null, socket, 0, TRUE,
                                 <<Emit(socket, "authenticated",
                                        [success |-> TRUE, userId |-> userId])>>
                                 \o ForEachEmit(userContacts, socks, "contact_online",
                                        [userId |-> userId, name |-> user.name]))
                /\ UNCHANGED <<emergencyContacts, activeTracking, nextSocketId>>
       ELSE IF userId # Missing
       THEN /\ userSockets' = MapSet(userSockets, userId, socket)
            /\ sockets' = MapSet(sockets, socket, userId)
            /\ last' = Reply("authenticate", userId, Null, socket, 0, FALSE, << >>)
            /\ UNCHANGED <<users, emergencyContacts, activeTracking, nextSocketId>>
       ELSE /\ last' = Reply("authenticate", userId, Null, socket, 0, FALSE,
                             <<Emit(socket, "authentication_failed",
                                    [success |-> FALSE, error |-> "Invalid user ID"])>>)
            /\ UNCHANGED <<stores, sockets, nextSocketId>>

\* Authenticate that binds on line 421 only a user who has no binding yet.
AuthenticateKeepsFirstBinding(socket, userId, now) ==
    /\ Has(sockets, socket)
    /\ IF userId # Missing /\ Has(users, userId)
       THEN LET socks == IF Has(userSockets, userId) THEN userSockets
                         ELSE MapSet(userSockets, userId, socket)
                user == [users[userId] EXCEPT !.lastActive = now]
                userContacts == ContactsOrEmpty(emergencyContacts, userId)
            IN  /\ userSockets' = socks
                /\ sockets' = MapSet(sockets, socket, userId)
                /\ users' = MapSet(users, userId, user)
                /\ last' = Reply("authenticate", userId, Null, socket, 0, TRUE,
                                 <<Emit(socket, "authenticated",
                                        [success |-> TRUE, userId |-> userId])>>
                                 \o ForEachEmit(userContacts, socks, "contact_online",
                                        [userId |-> userId, name |-> user.name]))
                /\ UNCHANGED <<emergencyContacts, activeTracking, nextSocketId>>
       ELSE /\ last' = Reply("authenticate", userId, Null, socket, 0, FALSE,
                             <<Emit(socket, "authentication_failed",
                                    [success |-> FALSE, error |-> "Invalid user ID"])>>)
            /\ UNCHANGED <<stores, sockets, nextSocketId>>

\* socket.on('authenticate')
Authenticate(socket, userId, now) ==
    /\ Has(sockets, socket)
    /\ IF userId # Missing /\ Has(users, userId)
       THEN LET socks == MapSet(userSockets, userId, socket)
                user == [users[userId] EXCEPT !.lastActive = now]
                userContacts == ContactsOrEmpty(emergencyContacts, userId)
            IN  /\ userSockets' = socks
                /\ sockets' = MapSet(sockets, socket, userId)
                /\ users' = MapSet(users, userId, user)
                /\ last' = Reply("authenticate", userId, Null, socket, 0, TRUE,
                                 <<Emit(socket, "authenticated",
                                        [success |-> TRUE, userId |-> userId])>>
                                 \o ForEachEmit(userContacts, socks, "contact_online",
                                        [userId |-> userId, name |-> user.name]))
                /\ UNCHANGED <<emergencyContacts, activeTracking, nextSocketId>>
       ELSE /\ last' = Reply("authenticate", userId, Null, socket, 0, FALSE,
                             <<Emit(socket, "authentication_failed",
                                    [success |-> FALSE, error |-> "Invalid user ID"])>>)
            /\ UNCHANGED <<stores, sockets, nextSocketId>>

\* SafetyAcknowledged that also ends the user's tracking session.
SafetyAcknowledgedStopsTracking(socket, userId, location) ==
    /\ Has(sockets, socket)
    /\ IF userId # Missing /\ Has(users, userId)
       THEN /\ activeTracking' = MapDelete(activeTracking, userId)
            /\ last' = Reply("safetyAcknowledged", userId, Null, socket, 0, TRUE,
                             ForEachEmit(ContactsOrEmpty(emergencyContacts, userId),
                                         userSockets, "contact_acknowledged",
                                         [from |-> From(users[userId]),
                                          location |-> location]))
       ELSE /\ last' = Reply("safetyAcknowledged", userId, Null, socket, 0, FALSE,
                             << >>)
            /\ UNCHANGED activeTracking
    /\ UNCHANGED <<users, userSockets, emergencyContacts, sockets, nextSocketId>>

\* socket.on('safety_acknowledged')
SafetyAcknowledged(socket, userId, location) ==
    /\ Has(sockets, socket)
    /\ IF userId # Missing /\ Has(users, userId)
       THEN last' = Reply("safetyAcknowledged", userId, Null, socket, 0, TRUE,
                          ForEachEmit(ContactsOrEmpty(emergencyContacts, userId),
                                      userSockets, "contact_acknowledged",
                                      [from |-> From(users[userId]),
                                       location |-> location]))
       ELSE last' = Reply("safetyAcknowledged", userId, Null, socket, 0, FALSE, << >>)
    /\ UNCHANGED <<stores, sockets, nextSocketId>>

\* Disconnect that tells every registered user, contact or not.
DisconnectNotifiesEveryone(socket) ==
    /\ Has(sockets, socket)
    /\ sockets' = MapDelete(sockets, socket)
    /\ IF sockets[socket] # Missing
       THEN LET userId == sockets[socket]
                socks == MapDelete(userSockets, userId)
                everyone == [i \in 1..NumUsers |-> i]
            IN  /\ userSockets' = socks
                /\ last' = Reply("disconnect", userId, Null, socket, 0, TRUE,
                                 IF Has(users, userId)
                                 THEN ForEachEmit(everyone, socks, "contact_offline",
                                          [userId |-> userId,
                                           name |-> users[userId].name])
                                 ELSE << >>)
       ELSE /\ last' = Reply("disconnect", Missing, Null, socket, 0, FALSE, << >>)
            /\ UNCHANGED userSockets
    /\ UNCHANGED <<users, emergencyContacts, activeTracking, nextSocketId>>

\* Disconnect that empties the registry when the socket has no userId.
DisconnectClearsRegistry(socket) ==
    /\ Has(sockets, socket)
    /\ sockets' = MapDelete(sockets, socket)
    /\ IF sockets[socket] # Missing
       THEN LET userId == sockets[socket]
                socks == MapDelete(userSockets, userId)
                userContacts == ContactsOrEmpty(emergencyContacts, userId)
            IN  /\ userSockets' = socks
                /\ last' = Reply("disconnect", userId, Null, socket, 0, TRUE,
                                 IF Has(users, userId)
                                 THEN ForEachEmit(userContacts, socks, "contact_offline",
                                          [userId |-> userId,
                                           name |-> users[userId].name])
                                 ELSE << >>)
       ELSE /\ last' = Reply("disconnect", Missing, Null, socket, 0, FALSE, << >>)
            /\ userSockets' = EmptyMap
    /\ UNCHANGED <<users, emergencyContacts, activeTracking, nextSocketId>>

\* socket.on('disconnect')
Disconnect(socket) ==
    /\ Has(sockets, socket)
    /\ sockets' = MapDelete(sockets, socket)
    /\ IF sockets[socket] # Missing
       THEN LET userId == sockets[socket]
                socks == MapDelete(userSockets, userId)
                userContacts == ContactsOrEmpty(emergencyContacts, userId)
            IN  /\ userSockets' = socks
                /\ last' = Reply("disconnect", userId, Null, socket, 0, TRUE,
                                 IF Has(users, userId)
                                 THEN ForEachEmit(userContacts, socks, "contact_offline",
                                          [userId |-> userId,
                                           name |-> users[userId].name])
                                 ELSE << >>)
       ELSE /\ last' = Reply("disconnect", Missing, Null, socket, 0, FALSE, << >>)
            /\ UNCHANGED userSockets
    /\ UNCHANGED <<users, emergencyContacts, activeTracking, nextSocketId>>

\* ---------------------------------------------------------------- Next
\* One request or socket event, its fields drawn from the given input sets.
Request(userIds, names, durations, locations, times, maxSockets) ==
    \/ \E name \in names \cup {NoName}, userId \in userIds \cup {Missing},
          now \in times : Register(name, userId, now)
    \/ \E userId \in userIds \cup {Missing}, contactUserId \in userIds \cup {Missing} :
          AddContact(userId, contactUserId)
    \/ \E userId \in userIds \cup {Missing} : ListContacts(userId)
    \/ \E userId \in userIds \cup {Missing}, duration \in durations,
          location \in locations, now \in times :
          StartTracking(userId, duration, location, now)
    \/ \E userId \in userIds \cup {Missing} : StopTracking(userId)
    \/ \E userId \in userIds \cup {Missing}, location \in locations :
          EmergencyAlert(userId, location)
    \/ Connection(maxSockets)
    \/ \E socket \in SocketIds, userId \in userIds \cup {Missing}, now \in times :
          Authenticate(socket, userId, now)
    \/ \E socket \in SocketIds, userId \in userIds \cup {Missing},
          location \in locations : SafetyAcknowledged(socket, userId, location)
    \/ \E socket \in SocketIds : Disconnect(socket)

\* Every input set in full.
Next == Request(UserIds, Names, Durations, Locations, Times, PresenceSockets)

Spec == Init /\ [][Next]_vars

\* Presence: three connections; one display name, one clock reading, and
\* tracking requests that carry no duration.
NextPresence == Request(UserIds, {"Ann"}, {0}, {Null}, {1}, PresenceSockets)

SpecPresence == Init /\ [][NextPresence]_vars

\* Tracking and alerts: every duration, two connections.
NextTracking == Request(UserIds, {"Ann"}, Durations, {Null}, {1}, TrackingSockets)

SpecTracking == Init /\ [][NextTracking]_vars

\* Identity store and contact graph: every display name, one connection.
NextIdentity == Request(UserIds, Names, {0, 300}, {Null}, {1}, IdentitySockets)

SpecIdentity == Init /\ [][NextIdentity]_vars

\* Registration: every display name, clock reading and location, for the
\* first RegisterUsers user ids.
NextRegister ==
    Request(1..RegisterUsers, Names, {0, 300}, Locations, Times, IdentitySockets)

SpecRegister == Init /\ [][NextRegister]_vars

\* ---------------------------------------------------------------- properties
NoDuplicates(arr) ==
    \A i, j \in 1..Len(arr) : i # j => arr[i] # arr[j]

\* Every event is of the given kind, and each handle receives as many of them
\* as there are entries of userContacts bound to it in socks.
OnePerOnlineContact(events, event, userContacts, socks) ==
    /\ \A i \in 1..Len(events) :
          events[i].event = event /\ events[i].to \in SocketIds
    /\ \A h \in SocketIds :
          Cardinality({i \in 1..Len(events) : events[i].to = h})
            = Cardinality({i \in 1..Len(userContacts) :
                              /\ Has(socks, userContacts[i])
                              /\ socks[userContacts[i]] = h})

\* C1: the disconnect of a connection that authenticated as user u, arriving
\* when u is bound to another (newer) handle, leaves u bound to that handle.
C1_StaleDisconnectKeepsNewerBinding ==
    [][\A c \in SocketIds, u \in UserIds :
          (/\ last'.op = "disconnect" /\ last'.socket = c
           /\ Has(sockets, c) /\ sockets[c] = u
           /\ Has(userSockets, u) /\ userSockets[u] # c)
          => (Has(userSockets', u) /\ userSockets'[u] = userSockets[u])]_vars

\* C2: a disconnect emits contact_offline for a user (to another connection)
\* only if the connection disconnecting was that user's current handle.
C2_OfflineOnlyForCurrentHandle ==
    [][\A c \in SocketIds :
          (/\ last'.op = "disconnect" /\ last'.socket = c /\ Has(sockets, c)
           /\ \E i \in 1..Len(last'.events) :
                 /\ last'.events[i].event = "contact_offline"
                 /\ last'.events[i].to # c)
          => (/\ Has(userSockets, last'.userId)
              /\ userSockets[last'.userId] = c)]_vars

\* C3: an emergency alert of a registered user with at least one contact
\* succeeds, leaves the user without a tracking session, emits exactly one
\* emergency_alert per contact that is online and none for the others, and
\* reports the number of online contacts and the length of the contact list.
C3_AlertFanOut ==
    (/\ last.op = "emergencyAlert"
     /\ Has(users, last.userId)
     /\ Len(ContactsOrEmpty(emergencyContacts, last.userId)) > 0)
    => LET userContacts == emergencyContacts[last.userId]
       IN  /\ last.status = 200
           /\ ~Has(activeTracking, last.userId)
           /\ OnePerOnlineContact(last.events, "emergency_alert",
                                  userContacts, userSockets)
           /\ last.result.notifiedContacts =
                 Cardinality({c \in UserIds :
                                 Includes(userContacts, c) /\ Has(userSockets, c)})
           /\ last.result.totalContacts = Len(userContacts)

\* An alert that reached one of two contacts, the other being offline.
C3_Witness ==
    /\ last.op = "emergencyAlert" /\ last.status = 200
    /\ last.result.totalContacts = 2
    /\ last.result.notifiedContacts = 1
    /\ Len(last.events) = 1

\* C4: an emergency alert of a registered user whose contact list is empty is
\* answered "No emergency contacts configured", emits nothing and leaves the
\* tracking map as it was.
C4_AlertWithoutContactsRejected ==
    [][(/\ last'.op = "emergencyAlert"
        /\ Has(users, last'.userId)
        /\ emergencyContacts[last'.userId] = << >>)
       => (/\ last'.status = 400
           /\ last'.result = "No emergency contacts configured"
           /\ last'.events = << >>
           /\ UNCHANGED activeTracking)]_vars

\* A rejected alert of a user whose tracking session is still active.
C4_Witness ==
    /\ last.op = "emergencyAlert" /\ last.status = 400
    /\ last.result = "No emergency contacts configured"
    /\ Has(activeTracking, last.userId)
    /\ activeTracking[last.userId].isActive

\* C5: the owner of every active tracking session is a registered user
\* (stated for the sessions of positive duration, which C6 allows).
C5_TrackedUsersAreRegistered ==
    \A u \in DOMAIN activeTracking :
       activeTracking[u].duration > 0 => Has(users, u)

\* C6: every active tracking session has a duration greater than zero
\* (stated for the sessions of registered users, which C5 allows).
C6_TrackedDurationsArePositive ==
    \A u \in DOMAIN activeTracking :
       Has(users, u) => activeTracking[u].duration > 0

\* C7: starting tracking for a registered user with a positive duration d
\* succeeds and emits one contact_tracking_started carrying d per online
\* contact; stopping a tracked user removes the session and emits one
\* contact_tracking_stopped per online contact; stopping a user with no
\* session changes nothing and emits nothing.
C7_StartStopNotifyOnce ==
    [][/\ (/\ last'.op = "startTracking" /\ last'.arg > 0
           /\ Has(users, last'.userId))
          => (/\ last'.status = 200
              /\ Has(activeTracking', last'.userId)
              /\ activeTracking'[last'.userId].duration = last'.arg
              /\ OnePerOnlineContact(last'.events, "contact_tracking_started",
                                     emergencyContacts[last'.userId], userSockets)
              /\ \A i \in 1..Len(last'.events) :
                    last'.events[i].data.duration = last'.arg)
       /\ (/\ last'.op = "stopTracking"
           /\ Has(users, last'.userId) /\ Has(activeTracking, last'.userId))
          => (/\ last'.status = 200
              /\ ~Has(activeTracking', last'.userId)
              /\ OnePerOnlineContact(last'.events, "contact_tracking_stopped",
                                     emergencyContacts[last'.userId], userSockets))
       /\ (/\ last'.op = "stopTracking" /\ last'.userId # Missing
           /\ ~Has(activeTracking, last'.userId))
          => (/\ last'.status = 200
              /\ last'.events = << >>
              /\ UNCHANGED <<stores, sockets>>)]_vars

\* A stop that removed a session and told the one online contact.
C7_Witness ==
    /\ last.op = "stopTracking" /\ last.status = 200
    /\ Len(last.events) = 1
    /\ last.events[1].event = "contact_tracking_stopped"
    /\ last.events[1].data.from.userId = last.userId
    /\ ~Has(activeTracking, last.userId)

\* C8: registering a user id that is already registered, with a name given,
\* is answered 409 and changes none of the four stores.
C8_DuplicateRegisterIsConflict ==
    [][(/\ last'.op = "register" /\ last'.arg # NoName
        /\ Has(users, last'.userId))
       => (/\ last'.status = 409
           /\ UNCHANGED <<users, emergencyContacts, userSockets,
                          activeTracking>>)]_vars

\* A registration refused for a user who has another name, a contact, a
\* connection and a tracking session.
C8_Witness ==
    /\ last.op = "register" /\ last.status = 409
    /\ Has(users, last.userId)
    /\ users[last.userId].name # last.arg
    /\ emergencyContacts[last.userId] # << >>
    /\ Has(userSockets, last.userId)
    /\ Has(activeTracking, last.userId)

\* C9: no contact list ever holds a user id twice; ListContacts answers the
\* list in its stored order; a list changes only by a successful AddContact
\* appending the new contact at its end; AddContact of a pair already present
\* is answered 409 and changes no list.
C9_ContactsOrderedWithoutDuplicates ==
    [][/\ \A u \in DOMAIN emergencyContacts' :
             NoDuplicates(emergencyContacts'[u])
       /\ (last'.op = "listContacts")
          => (/\ last'.status = 200
              /\ Len(last'.result) =
                    Len(ContactsOrEmpty(emergencyContacts, last'.userId))
              /\ \A i \in 1..Len(last'.result) :
                    last'.result[i].userId =
                       emergencyContacts[last'.userId][i])
       /\ (last'.op = "addContact" /\ last'.status = 200)
          => (emergencyContacts'[last'.userId] =
                 Append(emergencyContacts[last'.userId], last'.arg))
       /\ (last'.op # "addContact" \/ last'.status # 200)
          => (\A u \in DOMAIN emergencyContacts :
                 /\ Has(emergencyContacts', u)
                 /\ emergencyContacts'[u] = emergencyContacts[u])
       /\ (/\ last'.op = "addContact"
           /\ Has(emergencyContacts, last'.userId)
           /\ Includes(emergencyContacts[last'.userId], last'.arg))
          => (last'.status = 409 /\ UNCHANGED emergencyContacts)]_vars

\* A repeated AddContact refused for a user who already lists two contacts.
C9_Witness ==
    /\ last.op = "addContact" /\ last.status = 409
    /\ Len(emergencyContacts[last.userId]) = 2
    /\ Includes(emergencyContacts[last.userId], last.arg)

\* C10: the owner and every member of every contact list are registered;
\* AddContact with an unregistered owner or contact is answered 404 and
\* changes no list; AddContact changes no list but the owner's.
C10_ContactEdgesJoinRegisteredUsers ==
    [][/\ \A u \in DOMAIN emergencyContacts' :
             /\ Has(users', u)
             /\ \A i \in 1..Len(emergencyContacts'[u]) :
                   Has(users', emergencyContacts'[u][i])
       /\ (/\ last'.op = "addContact"
           /\ last'.userId # Missing /\ last'.arg # Missing
           /\ (~Has(users, last'.userId) \/ ~Has(users, last'.arg)))
          => (last'.status = 404 /\ UNCHANGED emergencyContacts)
       /\ (last'.op = "addContact")
          => (\A w \in DOMAIN emergencyContacts :
                 w # last'.userId
                 => emergencyContacts'[w] = emergencyContacts[w])]_vars

\* An AddContact of a registered owner refused for an unregistered contact.
C10_Witness ==
    /\ last.op = "addContact" /\ last.status = 404
    /\ Has(users, last.userId)
    /\ last.arg # Missing /\ ~Has(users, last.arg)

\* C11: every bound user is registered; an authenticate naming no registered
\* user changes no store and no socket, and emits one authentication_failed,
\* to the connection that asked, and nothing else.
C11_UnknownUserAuthenticateRejected ==
    [][/\ \A u \in DOMAIN userSockets' : Has(users', u)
       /\ (last'.op = "authenticate" /\ ~Has(users, last'.userId))
          => (/\ UNCHANGED <<stores, sockets>>
              /\ last'.result = FALSE
              /\ Len(last'.events) = 1
              /\ last'.events[1].to = last'.socket
              /\ last'.events[1].event = "authentication_failed")]_vars

\* A rejected authenticate for an unregistered id while a user is bound to
\* another connection.
C11_Witness ==
    /\ last.op = "authenticate" /\ last.result = FALSE
    /\ last.userId # Missing /\ ~Has(users, last.userId)
    /\ \E u \in DOMAIN userSockets :
          userSockets[u] # last.socket /\ Has(sockets, userSockets[u])

\* C12: an authenticate naming a registered user succeeds and leaves that
\* user bound to the authenticating connection, whatever the binding before.
C12_AuthenticateSupersedes ==
    [][(last'.op = "authenticate" /\ Has(users, last'.userId))
       => (/\ last'.result = TRUE
           /\ Has(userSockets', last'.userId)
           /\ userSockets'[last'.userId] = last'.socket
           /\ last'.events[1] =
                 Emit(last'.socket, "authenticated",
                      [success |-> TRUE, userId |-> last'.userId]))]_vars

\* An authenticate of a user on a second connection while the connection
\* that authenticated as that user before is still open.
C12_Witness ==
    /\ last.op = "authenticate" /\ last.result = TRUE
    /\ Has(userSockets, last.userId)
    /\ userSockets[last.userId] = last.socket
    /\ \E c \in DOMAIN sockets : c # last.socket /\ sockets[c] = last.userId

\* C13: each of the six fan-outs emits one event of its kind per contact of
\* the source user that is bound when the handler runs, to that contact's
\* handle, and none for an unbound contact; no handler answers 500; and a
\* step emits nothing but its own reply and its own fan-out, so no event is
\* delivered at a later step.
C13_FanOutToBoundContactsOnly ==
    [][/\ last'.status # 500
       /\ (last'.op = "authenticate" /\ last'.result = TRUE)
          => OnePerOnlineContact(Tail(last'.events), "contact_online",
                                 emergencyContacts[last'.userId], userSockets')
       /\ (last'.op = "disconnect" /\ last'.userId # Missing)
          => OnePerOnlineContact(last'.events, "contact_offline",
                                 ContactsOrEmpty(emergencyContacts, last'.userId),
                                 userSockets')
       /\ (/\ last'.op = "startTracking" /\ last'.status = 200
           /\ Has(users, last'.userId))
          => OnePerOnlineContact(last'.events, "contact_tracking_started",
                                 emergencyContacts[last'.userId], userSockets)
       /\ (/\ last'.op = "stopTracking"
           /\ Has(users, last'.userId) /\ Has(activeTracking, last'.userId))
          => OnePerOnlineContact(last'.events, "contact_tracking_stopped",
                                 emergencyContacts[last'.userId], userSockets)
       /\ (last'.op = "safetyAcknowledged" /\ Has(users, last'.userId))
          => OnePerOnlineContact(last'.events, "contact_acknowledged",
                                 emergencyContacts[last'.userId], userSockets)
       /\ (last'.op = "emergencyAlert" /\ last'.status = 200)
          => OnePerOnlineContact(last'.events, "emergency_alert",
                                 emergencyContacts[last'.userId], userSockets)
       /\ (last'.op \in {"register", "addContact", "listContacts", "connection"})
          => last'.events = << >>
       /\ (last'.op \in {"startTracking", "stopTracking", "emergencyAlert",
                         "safetyAcknowledged"}
           /\ ~Has(users, last'.userId))
          => last'.events = << >>]_vars

\* A tracking start announced to two contacts bound to different handles.
C13_Witness ==
    /\ last.op = "startTracking" /\ last.status = 200
    /\ Len(last.events) = 2
    /\ last.events[1].to # last.events[2].to
    /\ last.events[1].event = "contact_tracking_started"

\* C14: an acknowledgement changes no store and no socket; for a registered
\* user, online or not, it emits one contact_acknowledged per online contact;
\* for an unregistered user it emits nothing.
C14_AcknowledgeRecordsNothing ==
    [][(last'.op = "safetyAcknowledged")
       => (/\ UNCHANGED <<stores, sockets>>
           /\ Has(users, last'.userId)
              => (/\ last'.result = TRUE
                  /\ OnePerOnlineContact(last'.events, "contact_acknowledged",
                                         emergencyContacts[last'.userId],
                                         userSockets)
                  /\ \A i \in 1..Len(last'.events) :
                        last'.events[i].data.from.userId = last'.userId)
           /\ ~Has(users, last'.userId)
              => (last'.result = FALSE /\ last'.events = << >>))]_vars

\* An acknowledgement of a user who is offline and tracked, told to a contact.
C14_Witness ==
    /\ last.op = "safetyAcknowledged" /\ last.result = TRUE
    /\ ~Has(userSockets, last.userId)
    /\ Has(activeTracking, last.userId)
    /\ Len(last.events) >= 1
    /\ last.events[1].event = "contact_acknowledged"

\* C15: the registered ids are exactly the ids that have a contact list, and
\* the list of a user who has just registered is empty.
C15_RegisteredIffContactList ==
    /\ DOMAIN users = DOMAIN emergencyContacts
    /\ (last.op = "register" /\ last.status = 200)
       => (/\ Has(emergencyContacts, last.userId)
           /\ emergencyContacts[last.userId] = << >>)

\* A registration that succeeds while another user already has a contact.
C15_Witness ==
    /\ last.op = "register" /\ last.status = 200
    /\ \E u \in DOMAIN emergencyContacts :
          u # last.userId /\ Len(emergencyContacts[u]) >= 1

\* C16: no connection handle is the bound handle of two different users.
C16_RegistryInjective ==
    \A u1, u2 \in DOMAIN userSockets :
       u1 # u2 => userSockets[u1] # userSockets[u2]

\* C17: every bound handle belongs to a connection that has not disconnected.
C17_NoDanglingBindings ==
    \A u \in DOMAIN userSockets : Has(sockets, userSockets[u])

\* Source user id carried by a fan-out event.
SourceOf(e) ==
    IF e.event \in {"contact_online", "contact_offline"}
    THEN e.data.userId
    ELSE e.data.from.userId

IsPrefix(old, new) ==
    /\ Len(old) <= Len(new)
    /\ \A i \in 1..Len(old) : new[i] = old[i]

\* C19: across every step a registered user stays registered under the same
\* name, and every contact list keeps its previous entries as a prefix.
C19_IdentityAndContactsMonotone ==
    [][/\ \A u \in DOMAIN users :
             /\ Has(users', u)
             /\ users'[u].name = users[u].name
             /\ users'[u].userId = users[u].userId
       /\ \A u \in DOMAIN emergencyContacts :
             /\ Has(emergencyContacts', u)
             /\ IsPrefix(emergencyContacts[u], emergencyContacts'[u])]_vars

\* A second contact appended to the list of a user who is online.
C19_Witness ==
    /\ last.op = "addContact" /\ last.status = 200
    /\ Len(emergencyContacts[last.userId]) = 2
    /\ emergencyContacts[last.userId][2] = last.arg
    /\ Has(userSockets, last.userId)
    /\ users[last.userId].name = "Bob"

\* C20: the disconnect of a connection that has no userId changes none of the
\* four stores and emits no event.
C20_UnauthenticatedDisconnectIsNoOp ==
    [][(/\ last'.op = "disconnect"
        /\ Has(sockets, last'.socket)
        /\ sockets[last'.socket] = Missing)
       => (/\ UNCHANGED stores
           /\ last'.events = << >>
           /\ last'.result = FALSE)]_vars

\* Such a disconnect while a user with an online contact is bound elsewhere.
C20_Witness ==
    /\ last.op = "disconnect" /\ last.result = FALSE /\ last.userId = Missing
    /\ \E u \in DOMAIN userSockets :
          /\ Has(sockets, userSockets[u])
          /\ OnlineContacts(ContactsOrEmpty(emergencyContacts, u), userSockets) # {}

====
